---------------------------- MODULE Spec2Model ----------------------------
(***************************************************************************)
(* VQMT with the spherical metric WS-PSNR (src/inc/WSSSIM.hpp).            *)
(*                                                                         *)
(* Two state machines share the variables below.                           *)
(*   SpecW : a WSPSNR object and the statements of WSPSNR::compute, one    *)
(*           action per statement, called repeatedly on pairs of planes.   *)
(*   Spec  : main(), the driver: option values, output files, the two      *)
(*           checks on the frame size, the frame loop and the averages.    *)
(*                                                                         *)
(* Numbers.  A cv::Mat of CV_32F is a function row -> column -> integer.   *)
(* The weights are counted in units of Eps = cos(M_PI/2) = 6.1232e-17, the *)
(* value the double cosine returns at the odd multiples of M_PI/2, which   *)
(* are the only arguments line 99 ever passes; the products of line 103    *)
(* are in units of Eps, the squares of line 104 in units of Eps^2.  The    *)
(* rounding of single floats is left out.  A float result is <<"inf">> or  *)
(* <<"dB", n>>, n the value in whole decibels, rounded down.               *)
(***************************************************************************)
EXTENDS Integers, Sequences, FiniteSets, TLC

\* ------------------------------------------------------------- bounds ---
MaxH      == 3      \* SpecW: heights 1..MaxH
MaxW      == 1      \* SpecW: widths 1..MaxW
MaxCalls  == 2      \* SpecW: calls of compute on one WSPSNR object
MaxFrames == 2      \* Spec: --frames is 0..MaxFrames
MaxMetrics == 2     \* Spec: --metrics has 1..MaxMetrics tokens

\* sample values of the planes SpecW draws
OrigPixels == {100, 150}
ProcPixels == {50, 100, 150}

VARIABLES
    \* ---- WSPSNR object and the locals of WSPSNR::compute
    height, width,        \* Metric(h, w); also main's locals of the same name
    original_frame,       \* compute's argument `original`; main's original_frame
    processed_frame,      \* compute's argument `processed`; main's processed_frame
    tmp, weights,         \* the locals of compute
    j,                    \* the loop index of line 98
    ret,                  \* the value compute returned
    pcW,                  \* the statement of compute to execute next
    nCalls,               \* calls of compute begun on the object
    weightBuilds,         \* times a weight map was constructed and filled
    \* ---- main
    pc, nbframes, orig_path, proc_path, results_arg, metrics,
    results_path, result_file, files, closed,
    frame, origPos, procPos, origRead, procRead,
    result, result_avg,
    msssimObj, phvsObj,
    calls,                \* log of the metric computations: <<object, frame>>
    checks,               \* log of the size checks that were evaluated
    exitCode

wvars == <<height, width, original_frame, processed_frame, tmp, weights, j,
           ret, pcW, nCalls, weightBuilds>>
mvars == <<pc, nbframes, orig_path, proc_path, results_arg, metrics,
           results_path, result_file, files, closed, frame, origPos, procPos,
           origRead, procRead, result, result_avg, msssimObj, phvsObj, calls,
           checks, exitCode>>
vars == <<wvars, mvars>>

\* ------------------------------------------------------ cv::Mat, math ---
Rows(h) == 0 .. (h - 1)
Cols(w) == 0 .. (w - 1)

\* Mat::operator=(const Scalar&): every element becomes v
MatFill(h, w, v) == [r \in Rows(h) |-> [c \in Cols(w) |-> v]]

\* cv::Mat m(height, width, CV_32F): allocated; nothing reads it before it
\* is assigned (height >= 1)
MatAlloc(h, w) == MatFill(h, w, 0)

\* all planes of h x w samples drawn from S
Planes(h, w, S) == [Rows(h) -> [Cols(w) -> S]]

\* a subtraction that saturates at 0, as cv::subtract does on unsigned samples
subtract_saturating(a, b) ==
    [r \in DOMAIN a |-> [c \in DOMAIN a[r] |->
        IF a[r][c] < b[r][c] THEN 0 ELSE a[r][c] - b[r][c]]]

\* cv::subtract(a, b, dst) on CV_32F: elementwise, no saturation
subtract(a, b) ==
    [r \in DOMAIN a |-> [c \in DOMAIN a[r] |-> a[r][c] - b[r][c]]]

\* cv::multiply(a, b, dst): elementwise product
multiply(a, b) ==
    [r \in DOMAIN a |-> [c \in DOMAIN a[r] |-> a[r][c] * b[r][c]]]

RECURSIVE SumTo(_, _)
SumTo(f, n) == IF n < 0 THEN 0 ELSE f[n] + SumTo(f, n - 1)

\* sum of all elements of a Mat of h rows and w columns
MatSum(m, h, w) ==
    SumTo([r \in Rows(h) |-> SumTo(m[r], w - 1)], h - 1)

\* cv::mean(m).val[0] as the fraction <<sum, number of elements>>
mean(m, h, w) == <<MatSum(m, h, w), h * w>>

\* cos((k + 0.5) * M_PI) in IEEE double, in units of Eps, for k = 0..9
CosResidue == <<1, -3, 5, -7, 9, -40, -16, -44, -12, -48>>

\* cos((k + 0.5) * M_PI) for any integer k in -10..9; the cosine is even
CosOddHalfPi(k) == IF k >= 0 THEN CosResidue[k + 1] ELSE CosResidue[-k]

\* 100 * 10^(i/10), i = 0..9, rounded up
DeciBelSteps == <<100, 126, 159, 200, 252, 317, 399, 502, 631, 795>>

RECURSIVE Decade(_, _)
\* the k >= 0 with b * 10^k <= a < b * 10^(k+1), for a >= b > 0
Decade(a, b) == IF a \div 10 >= b THEN 1 + Decade(a \div 10, b) ELSE 0

RECURSIVE Pow10(_)
Pow10(k) == IF k = 0 THEN 1 ELSE 10 * Pow10(k - 1)

\* the first three digits of a / b, for b <= a < 10 * b: 100..999
Mantissa(a, b) ==
    LET d1 == a \div b
        r1 == a % b
        d2 == (10 * r1) \div b
        r2 == (10 * r1) % b
        d3 == (10 * r2) \div b
    IN  100 * d1 + 10 * d2 + d3

\* the tenths of a decade in a mantissa 100..999: 0..9
Tenths(m) ==
    CHOOSE i \in 0 .. 9 :
        /\ DeciBelSteps[i + 1] <= m
        /\ (i = 9 \/ m < DeciBelSteps[i + 2])

\* 10 * log10(a / b) in whole decibels, rounded down, for a > 0, b > 0
TenLog10(a, b) ==
    IF a >= b
    THEN LET k == Decade(a, b)
         IN  10 * k + Tenths(Mantissa(a, b * Pow10(k)))
    ELSE LET q == Decade(b, a)
             k == IF a * Pow10(q) = b THEN q ELSE q + 1
         IN  Tenths(Mantissa(a * Pow10(k), b)) - 10 * k

\* 255*255 / Eps^2 = 1.73428e37, as PeakMant * 10^PeakExp
PeakMant == 173428
PeakExp  == 32
Peak     == 65025          \* 255*255

\* float(10*log10(255*255 / m)) for m = <<s, n>> counted in units of Eps^2
\* (s >= 0: a sum of squares).  The division by 0.0 yields +inf.
WSResult(m) ==
    IF m[1] = 0 THEN <<"inf">>
    ELSE <<"dB", 10 * PeakExp + TenLog10(PeakMant * m[2], m[1])>>

RECURSIVE WeightLoop(_, _, _, _)
\* lines 98-100 from index jj on: each pass assigns the whole Mat
WeightLoop(h, w, jj, wts) ==
    IF jj < h
    THEN WeightLoop(h, w, jj + 1, MatFill(h, w, CosOddHalfPi(jj - (h \div 2))))
    ELSE wts

\* WSPSNR::compute as one function of its arguments
WSPSNR_compute(h, w, original, processed) ==
    LET wts == WeightLoop(h, w, 0, MatAlloc(h, w))
        t1  == subtract(original, processed)
        t2  == multiply(t1, wts)
        t3  == multiply(t2, t2)
    IN  WSResult(mean(t3, h, w))

\* ---------------------------------------- WSPSNR::compute, by statement ---
NoMat == <<>>

\* a compute that keeps the map of its first call and skips lines 96-100
W_Call_memoized ==
    /\ pcW = "idle"
    /\ nCalls < MaxCalls
    /\ \E o \in OrigPixels, p \in Planes(height, width, ProcPixels) :
          /\ original_frame' = MatFill(height, width, o)
          /\ processed_frame' = p
    /\ tmp' = MatAlloc(height, width)
    /\ nCalls' = nCalls + 1
    /\ j' = 0
    /\ IF weightBuilds = 0
       THEN /\ weights' = MatAlloc(height, width)
            /\ weightBuilds' = 1
            /\ pcW' = "weights"
       ELSE /\ weights' = WeightLoop(height, width, 0, MatAlloc(height, width))
            /\ weightBuilds' = weightBuilds
            /\ pcW' = "subtract"
    /\ UNCHANGED <<height, width, ret>>

\* a caller passes two planes of the object's size: lines 93-96
W_Call ==
    /\ pcW = "idle"
    /\ nCalls < MaxCalls
    /\ \E o \in OrigPixels, p \in Planes(height, width, ProcPixels) :
          /\ original_frame' = MatFill(height, width, o)
          /\ processed_frame' = p
    /\ tmp' = MatAlloc(height, width)
    /\ weights' = MatAlloc(height, width)
    /\ weightBuilds' = weightBuilds + 1
    /\ nCalls' = nCalls + 1
    /\ j' = 0
    /\ pcW' = "weights"
    /\ UNCHANGED <<height, width, ret>>

\* lines 98-100: one pass of the loop, or its exit
W_Weights ==
    /\ pcW = "weights"
    /\ IF j < height
       THEN /\ weights' = MatFill(height, width, CosOddHalfPi(j - (height \div 2)))
            /\ j' = j + 1
            /\ pcW' = pcW
       ELSE /\ pcW' = "subtract"
            /\ UNCHANGED <<weights, j>>
    /\ UNCHANGED <<height, width, original_frame, processed_frame, tmp, ret,
                   nCalls, weightBuilds>>

\* line 102
W_Subtract ==
    /\ pcW = "subtract"
    /\ tmp' = subtract(original_frame, processed_frame)
    /\ pcW' = "multiply"
    /\ UNCHANGED <<height, width, original_frame, processed_frame, weights, j,
                   ret, nCalls, weightBuilds>>

\* line 103
W_Multiply ==
    /\ pcW = "multiply"
    /\ tmp' = multiply(tmp, weights)
    /\ pcW' = "square"
    /\ UNCHANGED <<height, width, original_frame, processed_frame, weights, j,
                   ret, nCalls, weightBuilds>>

\* line 104
W_Square ==
    /\ pcW = "square"
    /\ tmp' = multiply(tmp, tmp)
    /\ pcW' = "return"
    /\ UNCHANGED <<height, width, original_frame, processed_frame, weights, j,
                   ret, nCalls, weightBuilds>>

\* line 105
W_Return ==
    /\ pcW = "return"
    /\ ret' = WSResult(mean(tmp, height, width))
    /\ pcW' = "returned"
    /\ UNCHANGED <<height, width, original_frame, processed_frame, tmp,
                   weights, j, nCalls, weightBuilds>>

\* line 106: the locals are destroyed; the caller goes on to its next frame
W_Release ==
    /\ pcW = "returned"
    /\ tmp' = NoMat
    /\ weights' = NoMat
    /\ original_frame' = NoMat
    /\ processed_frame' = NoMat
    /\ ret' = <<"zero">>
    /\ j' = 0
    /\ pcW' = "idle"
    /\ UNCHANGED <<height, width, nCalls, weightBuilds>>

\* values of main's variables while only the object is exercised
MainIdle ==
    /\ pc = "none" /\ nbframes = 0
    /\ orig_path = "" /\ proc_path = "" /\ results_arg = "" /\ metrics = <<>>
    /\ results_path = "" /\ result_file = <<>> /\ files = <<>> /\ closed = {}
    /\ frame = 0 /\ origPos = 0 /\ procPos = 0
    /\ origRead = <<>> /\ procRead = <<>>
    /\ result = <<>> /\ result_avg = <<>>
    /\ msssimObj = <<>> /\ phvsObj = <<>>
    /\ calls = <<>> /\ checks = <<>> /\ exitCode = -1

\* lines 89-91: WSPSNR(h, w) stores the size
InitW ==
    /\ height \in 1 .. MaxH
    /\ width \in 1 .. MaxW
    /\ original_frame = NoMat /\ processed_frame = NoMat
    /\ tmp = NoMat /\ weights = NoMat
    /\ j = 0 /\ ret = <<"zero">> /\ pcW = "idle"
    /\ nCalls = 0 /\ weightBuilds = 0
    /\ MainIdle

NextW ==
    \/ W_Call /\ UNCHANGED mvars
    \/ W_Weights /\ UNCHANGED mvars
    \/ W_Subtract /\ UNCHANGED mvars
    \/ W_Multiply /\ UNCHANGED mvars
    \/ W_Square /\ UNCHANGED mvars
    \/ W_Return /\ UNCHANGED mvars
    \/ W_Release /\ UNCHANGED mvars

SpecW == InitW /\ [][NextW]_vars


\* ------------------------------------------------------------- main ---
\* enum Metrics, lines 196-208
METRIC_PSNR      == 0
METRIC_SSIM      == 1
METRIC_MSSSIM    == 2
METRIC_VIFP      == 3
METRIC_PSNRHVS   == 4
METRIC_PSNRHVSM  == 5
METRIC_WSPSNR    == 6
METRIC_WSSSIM    == 7
METRIC_WSMMSSSIM == 8
METRIC_SIZE      == 9

MetricIdx == 0 .. (METRIC_SIZE - 1)

\* lines 210-218
metric2index ==
    [n \in {"PSNR", "SSIM", "MSSSIM", "VIFP", "PSNRHVS", "PSNRHVSM", "WSPSNR"} |->
        CASE n = "PSNR"     -> METRIC_PSNR
          [] n = "SSIM"     -> METRIC_SSIM
          [] n = "MSSSIM"   -> METRIC_MSSSIM
          [] n = "VIFP"     -> METRIC_VIFP
          [] n = "PSNRHVS"  -> METRIC_PSNRHVS
          [] n = "PSNRHVSM" -> METRIC_PSNRHVSM
          [] n = "WSPSNR"   -> METRIC_WSPSNR]

\* the tokens --metrics is given: the recognized names and one that is not
MetricOrder == <<"PSNR", "SSIM", "MSSSIM", "VIFP", "PSNRHVS", "PSNRHVSM",
                 "WSPSNR", "WSSSIM">>
MetricArgs == {MetricOrder[i] : i \in DOMAIN MetricOrder}

\* the values of --metrics: 1..MaxMetrics tokens, a token may be repeated.
\* The loop of lines 263-271 treats each token by itself, so the lists are
\* drawn in the order of MetricOrder only.
MetricLists ==
    LET idx == UNION {[1 .. n -> DOMAIN MetricOrder] : n \in 1 .. MaxMetrics}
        ordered == {q \in idx : \A i \in 1 .. (Len(q) - 1) : q[i] <= q[i + 1]}
    IN  {[i \in DOMAIN q |-> MetricOrder[q[i]]] : q \in ordered}

\* height and width of the streams
FrameSizes == {<<16, 16>>, <<8, 8>>, <<10, 10>>, <<16, 10>>}

\* luma level of a frame of the original / of the processed stream
OrigLevels == {128, 130}
ProcLevels == {128}

Null == ""                 \* nullptr of FILE*
EXIT_SUCCESS == 0
EXIT_FAILURE == 1

Zero == <<"zero">>         \* 0.0f

\* line 265: sprintf(str, "%s_%s.csv", results_path, metric)
FileName(path, metric) == path \o "_" \o metric \o ".csv"

RECURSIVE OpenLoop(_, _, _, _)
\* lines 263-271 from token i on: <<result_file, files>> after the loop.
\* fopen(str, "w") creates the file or truncates it.
OpenLoop(ms, i, rf, fs) ==
    IF i > Len(ms) THEN <<rf, fs>>
    ELSE IF ms[i] \in DOMAIN metric2index
         THEN LET name == FileName(results_path, ms[i])
              IN  OpenLoop(ms, i + 1,
                           [rf EXCEPT ![metric2index[ms[i]]] = name],
                           [n \in DOMAIN fs \cup {name} |->
                               IF n = name THEN <<>> ELSE fs[n]])
         ELSE OpenLoop(ms, i + 1, rf, fs)

\* lines 261-272
OpenOutputs ==
    /\ pc = "open"
    /\ LET r == OpenLoop(metrics, 1, [m \in MetricIdx |-> Null], files)
       IN  /\ result_file' = r[1]
           /\ files' = r[2]
    /\ pc' = "check_vifp"
    /\ UNCHANGED <<wvars, nbframes, orig_path, proc_path, results_arg, metrics,
                   results_path, closed, frame, origPos, procPos, origRead,
                   procRead, result, result_avg, msssimObj, phvsObj, calls,
                   checks, exitCode>>

\* lines 274-278
CheckVIFP ==
    /\ pc = "check_vifp"
    /\ checks' = Append(checks, "VIFP")
    /\ IF result_file[METRIC_VIFP] # Null /\ (height % 8 # 0 \/ width % 8 # 0)
       THEN pc' = "failed" /\ exitCode' = EXIT_FAILURE
       ELSE pc' = "check_msssim" /\ exitCode' = exitCode
    /\ UNCHANGED <<wvars, nbframes, orig_path, proc_path, results_arg, metrics,
                   results_path, result_file, files, closed, frame, origPos,
                   procPos, origRead, procRead, result, result_avg, msssimObj,
                   phvsObj, calls>>

\* a check for multiples of 8 where multiples of 16 are needed
CheckMSSSIM_mod8 ==
    /\ pc = "check_msssim"
    /\ checks' = Append(checks, "MSSSIM")
    /\ IF result_file[METRIC_MSSSIM] # Null /\ (height % 8 # 0 \/ width % 8 # 0)
       THEN pc' = "failed" /\ exitCode' = EXIT_FAILURE
       ELSE pc' = "header" /\ exitCode' = exitCode
    /\ UNCHANGED <<wvars, nbframes, orig_path, proc_path, results_arg, metrics,
                   results_path, result_file, files, closed, frame, origPos,
                   procPos, origRead, procRead, result, result_avg, msssimObj,
                   phvsObj, calls>>

\* lines 280-284
CheckMSSSIM ==
    /\ pc = "check_msssim"
    /\ checks' = Append(checks, "MSSSIM")
    /\ IF result_file[METRIC_MSSSIM] # Null /\ (height % 16 # 0 \/ width % 16 # 0)
       THEN pc' = "failed" /\ exitCode' = EXIT_FAILURE
       ELSE pc' = "header" /\ exitCode' = exitCode
    /\ UNCHANGED <<wvars, nbframes, orig_path, proc_path, results_arg, metrics,
                   results_path, result_file, files, closed, frame, origPos,
                   procPos, origRead, procRead, result, result_avg, msssimObj,
                   phvsObj, calls>>

\* the file result_file[m] names, with one more line
Fprintf(fs, rf, line) ==
    [n \in DOMAIN fs |->
        IF \E m \in MetricIdx : rf[m] = n
        THEN Append(fs[n], line[CHOOSE m \in MetricIdx : rf[m] = n])
        ELSE fs[n]]

\* the first statement of the loop body, or what follows the loop: line 306
LoopHead(f) == IF f < nbframes THEN "read_orig" ELSE "average"

\* lines 286-304: the header lines, the metric objects, the result arrays
PrintHeader ==
    /\ pc = "header"
    /\ files' = Fprintf(files, result_file, [m \in MetricIdx |-> <<"frame,value">>])
    /\ original_frame' = MatAlloc(height, width)
    /\ processed_frame' = MatAlloc(height, width)
    /\ result' = [m \in MetricIdx |-> Zero]
    /\ result_avg' = [m \in MetricIdx |-> <<>>]
    /\ msssimObj' = [ssim |-> Zero, msssim |-> Zero]
    /\ phvsObj' = [psnrhvs |-> Zero, psnrhvsm |-> Zero]
    /\ frame' = 0
    /\ pc' = LoopHead(0)
    /\ UNCHANGED <<height, width, tmp, weights, j, ret, pcW, nCalls,
                   weightBuilds, nbframes, orig_path, proc_path, results_arg,
                   metrics, results_path, result_file, closed, origPos,
                   procPos, origRead, procRead, calls, checks, exitCode>>

\* VideoYUV::getLuma(frame, CV_32F) of a frame of one luma level
getLuma(level) == MatFill(height, width, level)

\* the conditions of the loop body's if statements
DoPSNR   == result_file[METRIC_PSNR] # Null                          \* line 316
DoSSIM_whenever_selected == result_file[METRIC_SSIM] # Null
\* line 321
DoSSIM   == result_file[METRIC_SSIM] # Null /\ result_file[METRIC_MSSSIM] = Null
DoMSSSIM == result_file[METRIC_MSSSIM] # Null                        \* line 325
DoVIFP   == result_file[METRIC_VIFP] # Null                          \* line 336
DoHVS    == result_file[METRIC_PSNRHVS] # Null \/ result_file[METRIC_PSNRHVSM] # Null
DoWSPSNR == result_file[METRIC_WSPSNR] # Null                        \* line 354

Stages == <<"psnr", "ssim", "msssim", "vifp", "hvs", "wspsnr">>

Taken(s) ==
    CASE s = "psnr"   -> DoPSNR
      [] s = "ssim"   -> DoSSIM
      [] s = "msssim" -> DoMSSSIM
      [] s = "vifp"   -> DoVIFP
      [] s = "hvs"    -> DoHVS
      [] s = "wspsnr" -> DoWSPSNR

RECURSIVE StageFrom(_)
\* the first if statement from the i-th on whose body is executed; the
\* loop over the files of line 363 when there is none
StageFrom(i) ==
    IF i > Len(Stages) THEN "row"
    ELSE IF Taken(Stages[i]) THEN Stages[i] ELSE StageFrom(i + 1)

\* a loop that goes on to the next frame when the read fails
ReadOriginal_skip ==
    /\ pc = "read_orig"
    /\ \/ /\ pc' = LoopHead(frame + 1)
          /\ frame' = frame + 1
          /\ exitCode' = exitCode
          /\ UNCHANGED <<origPos, origRead, original_frame>>
       \/ \E lv \in OrigLevels :
             /\ origPos' = origPos + 1
             /\ origRead' = Append(origRead, lv)
             /\ original_frame' = getLuma(lv)
             /\ pc' = "read_proc"
             /\ exitCode' = exitCode
             /\ frame' = frame
    /\ UNCHANGED <<height, width, processed_frame, tmp, weights, j, ret, pcW,
                   nCalls, weightBuilds, nbframes, orig_path, proc_path,
                   results_arg, metrics, results_path, result_file, files,
                   closed, procPos, procRead, result, result_avg,
                   msssimObj, phvsObj, calls, checks>>

\* lines 309-310: readOneFrame fails when the stream has no further frame
ReadOriginal ==
    /\ pc = "read_orig"
    /\ \/ /\ pc' = "failed" /\ exitCode' = EXIT_FAILURE
          /\ UNCHANGED <<origPos, origRead, original_frame>>
       \/ \E lv \in OrigLevels :
             /\ origPos' = origPos + 1
             /\ origRead' = Append(origRead, lv)
             /\ original_frame' = getLuma(lv)
             /\ pc' = "read_proc"
             /\ exitCode' = exitCode
    /\ UNCHANGED <<height, width, processed_frame, tmp, weights, j, ret, pcW,
                   nCalls, weightBuilds, nbframes, orig_path, proc_path,
                   results_arg, metrics, results_path, result_file, files,
                   closed, frame, procPos, procRead, result, result_avg,
                   msssimObj, phvsObj, calls, checks>>

\* lines 312-313
ReadProcessed ==
    /\ pc = "read_proc"
    /\ \/ /\ pc' = "failed" /\ exitCode' = EXIT_FAILURE
          /\ UNCHANGED <<procPos, procRead, processed_frame>>
       \/ \E lv \in ProcLevels :
             /\ procPos' = procPos + 1
             /\ procRead' = Append(procRead, lv)
             /\ processed_frame' = getLuma(lv)
             /\ pc' = StageFrom(1)
             /\ exitCode' = exitCode
    /\ UNCHANGED <<height, width, original_frame, tmp, weights, j, ret, pcW,
                   nCalls, weightBuilds, nbframes, orig_path, proc_path,
                   results_arg, metrics, results_path, result_file, files,
                   closed, frame, origPos, origRead, result, result_avg,
                   msssimObj, phvsObj, calls, checks>>

\* the value a metric object computes from a pair of planes
Score(metric, o, p) == <<metric, o, p>>

\* what is left alone by an if statement of the loop body
BodyFrame ==
    UNCHANGED <<height, width, original_frame, processed_frame, tmp, weights,
                j, ret, pcW, nbframes, orig_path, proc_path, results_arg,
                metrics, results_path, result_file, files, closed, frame,
                origPos, procPos, origRead, procRead, result_avg, checks,
                exitCode>>

\* a PSNR computed for the first frame only
ComputePSNR_first_frame_only ==
    /\ pc = "psnr"
    /\ result' = IF frame = 0
                 THEN [result EXCEPT ![METRIC_PSNR] =
                          Score("PSNR", original_frame, processed_frame)]
                 ELSE result
    /\ calls' = Append(calls, <<"psnr", frame>>)
    /\ pc' = StageFrom(2)
    /\ BodyFrame
    /\ UNCHANGED <<nCalls, weightBuilds, msssimObj, phvsObj>>

\* lines 315-318
ComputePSNR ==
    /\ pc = "psnr"
    /\ result' = [result EXCEPT ![METRIC_PSNR] =
                     Score("PSNR", original_frame, processed_frame)]
    /\ calls' = Append(calls, <<"psnr", frame>>)
    /\ pc' = StageFrom(2)
    /\ BodyFrame
    /\ UNCHANGED <<nCalls, weightBuilds, msssimObj, phvsObj>>

\* lines 320-323
ComputeSSIM ==
    /\ pc = "ssim"
    /\ result' = [result EXCEPT ![METRIC_SSIM] =
                     Score("SSIM", original_frame, processed_frame)]
    /\ calls' = Append(calls, <<"ssim", frame>>)
    /\ pc' = StageFrom(3)
    /\ BodyFrame
    /\ UNCHANGED <<nCalls, weightBuilds, msssimObj, phvsObj>>

\* MSSSIM::compute: one pass yields the plain SSIM and the MS-SSIM
MSSSIM_compute(o, p) ==
    [ssim |-> Score("SSIM", o, p), msssim |-> Score("MSSSIM", o, p)]

\* lines 325-333
ComputeMSSSIM ==
    /\ pc = "msssim"
    /\ LET obj == MSSSIM_compute(original_frame, processed_frame)
       IN  /\ msssimObj' = obj
           /\ result' = [result EXCEPT
                  ![METRIC_SSIM] =
                      IF result_file[METRIC_SSIM] # Null THEN obj.ssim ELSE @,
                  ![METRIC_MSSSIM] = obj.msssim]
    /\ calls' = Append(calls, <<"msssim", frame>>)
    /\ pc' = StageFrom(4)
    /\ BodyFrame
    /\ UNCHANGED <<nCalls, weightBuilds, phvsObj>>

\* lines 335-338
ComputeVIFP ==
    /\ pc = "vifp"
    /\ result' = [result EXCEPT ![METRIC_VIFP] =
                     Score("VIFP", original_frame, processed_frame)]
    /\ calls' = Append(calls, <<"vifp", frame>>)
    /\ pc' = StageFrom(5)
    /\ BodyFrame
    /\ UNCHANGED <<nCalls, weightBuilds, msssimObj, phvsObj>>

\* PSNRHVS::compute: PSNR-HVS and PSNR-HVS-M are computed at the same time
PSNRHVS_compute(o, p) ==
    [psnrhvs |-> Score("PSNRHVS", o, p), psnrhvsm |-> Score("PSNRHVSM", o, p)]

\* lines 340-351
ComputePSNRHVS ==
    /\ pc = "hvs"
    /\ LET obj == PSNRHVS_compute(original_frame, processed_frame)
       IN  /\ phvsObj' = obj
           /\ result' = [result EXCEPT
                  ![METRIC_PSNRHVS] =
                      IF result_file[METRIC_PSNRHVS] # Null THEN obj.psnrhvs ELSE @,
                  ![METRIC_PSNRHVSM] =
                      IF result_file[METRIC_PSNRHVSM] # Null THEN obj.psnrhvsm ELSE @]
    /\ calls' = Append(calls, <<"phvs", frame>>)
    /\ pc' = StageFrom(6)
    /\ BodyFrame
    /\ UNCHANGED <<nCalls, weightBuilds, msssimObj>>

\* lines 353-356: one call of WSPSNR::compute, which builds its weights
ComputeWSPSNR ==
    /\ pc = "wspsnr"
    /\ result' = [result EXCEPT ![METRIC_WSPSNR] =
                     WSPSNR_compute(height, width, original_frame, processed_frame)]
    /\ calls' = Append(calls, <<"wspsnr", frame>>)
    /\ nCalls' = nCalls + 1
    /\ weightBuilds' = weightBuilds + 1
    /\ pc' = "row"
    /\ BodyFrame
    /\ UNCHANGED <<msssimObj, phvsObj>>

\* lines 362-369: accumulate, print one row per open file, next frame
PrintRow ==
    /\ pc = "row"
    /\ result_avg' = [m \in MetricIdx |->
                         IF result_file[m] # Null
                         THEN Append(result_avg[m], result[m])
                         ELSE result_avg[m]]
    /\ files' = Fprintf(files, result_file,
                        [m \in MetricIdx |-> <<"row", frame, result[m]>>])
    /\ frame' = frame + 1
    /\ pc' = LoopHead(frame + 1)
    /\ UNCHANGED <<wvars, nbframes, orig_path, proc_path, results_arg, metrics,
                   results_path, result_file, closed, origPos, procPos,
                   origRead, procRead, result, msssimObj, phvsObj, calls,
                   checks, exitCode>>

\* result_avg[m] /= nbframes: the sum of the addends over nbframes
Average(addends, n) == <<"avg", addends, n>>

\* lines 371-378
PrintAverage ==
    /\ pc = "average"
    /\ result_avg' = [m \in MetricIdx |->
                         IF result_file[m] # Null
                         THEN Average(result_avg[m], nbframes)
                         ELSE result_avg[m]]
    /\ files' = Fprintf(files, result_file,
                        [m \in MetricIdx |->
                            <<"average", Average(result_avg[m], nbframes)>>])
    /\ closed' = closed \cup {result_file[m] : m \in {i \in MetricIdx : result_file[i] # Null}}
    /\ pc' = "cleanup"
    /\ UNCHANGED <<wvars, nbframes, orig_path, proc_path, results_arg, metrics,
                   results_path, result_file, frame, origPos, procPos,
                   origRead, procRead, result, msssimObj, phvsObj, calls,
                   checks, exitCode>>

\* lines 380-395
Finish ==
    /\ pc = "cleanup"
    /\ pc' = "done"
    /\ exitCode' = EXIT_SUCCESS
    /\ UNCHANGED <<wvars, nbframes, orig_path, proc_path, results_arg, metrics,
                   results_path, result_file, files, closed, frame, origPos,
                   procPos, origRead, procRead, result, result_avg, msssimObj,
                   phvsObj, calls, checks>>

\* lines 235-258: the option values, the two input streams
Init ==
    /\ \E d \in FrameSizes : height = d[1] /\ width = d[2]
    /\ nbframes \in 0 .. MaxFrames
    /\ orig_path = "orig.yuv"
    /\ proc_path = "proc.yuv"
    /\ results_arg = "results"
    /\ metrics \in MetricLists
    /\ results_path = proc_path
    /\ result_file = [m \in MetricIdx |-> Null]
    /\ files = <<>> /\ closed = {}
    /\ frame = 0 /\ origPos = 0 /\ procPos = 0
    /\ origRead = <<>> /\ procRead = <<>>
    /\ result = <<>> /\ result_avg = <<>>
    /\ msssimObj = <<>> /\ phvsObj = <<>>
    /\ calls = <<>> /\ checks = <<>> /\ exitCode = -1
    /\ pc = "open"
    /\ original_frame = NoMat /\ processed_frame = NoMat
    /\ tmp = NoMat /\ weights = NoMat
    /\ j = 0 /\ ret = Zero /\ pcW = "idle"
    /\ nCalls = 0 /\ weightBuilds = 0

Next ==
    \/ OpenOutputs
    \/ CheckVIFP
    \/ CheckMSSSIM
    \/ PrintHeader
    \/ ReadOriginal
    \/ ReadProcessed
    \/ ComputePSNR
    \/ ComputeSSIM
    \/ ComputeMSSSIM
    \/ ComputeVIFP
    \/ ComputePSNRHVS
    \/ ComputeWSPSNR
    \/ PrintRow
    \/ PrintAverage
    \/ Finish

Spec == Init /\ [][Next]_vars


\* ------------------------------------------------- WSPSNR::compute: claims ---
Abs(x) == IF x < 0 THEN -x ELSE x

\* the statements of compute that follow the construction of the weights
AfterWeights == {"subtract", "multiply", "square", "return", "returned"}

\* (R - P)^2, elementwise
SquaredError == multiply(subtract(original_frame, processed_frame),
                         subtract(original_frame, processed_frame))

\* the planes differ by the same d everywhere
ConstantDifference(d) ==
    \A r \in Rows(height), c \in Cols(width) :
        original_frame[r][c] - processed_frame[r][c] = d

\* C1: compute reports 10*log10(255^2 / wMSE), wMSE the sum of W*(R-P)^2
\* over the sum of W, W the weight map in use; and so, on planes that differ
\* by the same d everywhere, the plain PSNR 10*log10(255^2 / d^2).
C1_WeightedMeanSquaredError ==
    pcW = "returned" =>
        /\ LET num == MatSum(multiply(weights, SquaredError), height, width)
               den == MatSum(weights, height, width)
           IN  den # 0 =>
                  ret = IF num = 0 THEN <<"inf">>
                        ELSE <<"dB", TenLog10(Peak * Abs(den), Abs(num))>>
        /\ \A d \in {-100, -50, 50, 100} :
              ConstantDifference(d) => ret = <<"dB", TenLog10(Peak, d * d)>>

\* twice the distance of row r from the equator of a frame of height h
EquatorDistance(r, h) == Abs(2 * r + 1 - h)

\* C2: the weight depends on the row only, and a row nearer to the equator
\* carries a larger weight than a row farther from it.
C2_WeightsFallOffWithLatitude ==
    pcW \in AfterWeights =>
        /\ \A r \in Rows(height), c1, c2 \in Cols(width) :
              weights[r][c1] = weights[r][c2]
        /\ \A r1, r2 \in Rows(height), c \in Cols(width) :
              EquatorDistance(r1, height) < EquatorDistance(r2, height)
                  => weights[r1][c] > weights[r2][c]

\* C7: when line 105 divides, the mean it divides by is not zero.
C7_DenominatorNotZero ==
    pcW = "return" => mean(tmp, height, width)[1] # 0

\* C9: compute(R, P) = compute(P, R).
C9_Symmetric ==
    pcW = "returned" =>
        ret = WSPSNR_compute(height, width, processed_frame, original_frame)

C9_Witness ==
    /\ pcW = "returned"
    /\ height = 3
    /\ \E r1, r2 \in Rows(height) :
          /\ original_frame[r1][0] > processed_frame[r1][0]
          /\ original_frame[r2][0] < processed_frame[r2][0]
    /\ ret[1] = "dB"

\* the map lines 96-100 leave behind for the object's size
BuiltWeights == WeightLoop(height, width, 0, MatAlloc(height, width))

Range(q) == {q[i] : i \in DOMAIN q}

Selected(name) == name \in Range(metrics)

\* the number of entries of the log q equal to e
Count(q, e) == Cardinality({i \in DOMAIN q : q[i] = e})

NoLineWritten == \A n \in DOMAIN files : files[n] = <<>>

\* C3: with MSSSIM selected and a height or width that is no multiple of 16,
\* the run fails at the size check: no frame is read, no metric computed and
\* no line written; the check is evaluated once per run.
C3_SizeCheckedBeforeFrames ==
    /\ Count(checks, "MSSSIM") <= 1
    /\ pc \notin {"open", "check_vifp", "check_msssim", "failed"}
          => Count(checks, "MSSSIM") = 1
    /\ (Selected("MSSSIM") /\ (height % 16 # 0 \/ width % 16 # 0)) =>
          /\ pc \in {"open", "check_vifp", "check_msssim", "failed"}
          /\ pc = "failed" => exitCode = EXIT_FAILURE
          /\ origPos = 0 /\ procPos = 0
          /\ calls = <<>>
          /\ NoLineWritten

C3_Witness ==
    /\ pc = "failed"
    /\ metrics = <<"MSSSIM">>
    /\ height = 10 /\ width = 10
    /\ checks = <<"VIFP", "MSSSIM">>
    /\ DOMAIN files = {FileName(results_path, "MSSSIM")}

\* a read of a frame failed: the run ended after the result arrays were set up
ReadFailed == pc = "failed" /\ result # <<>>

\* the values of the rows of a file, in the order written
RowValues(lines) ==
    LET rows == SelectSeq(lines, LAMBDA l : l[1] = "row")
    IN  [i \in DOMAIN rows |-> rows[i][3]]

\* header, then the rows of frames 0..n-1 and nothing else
RowsUpTo(lines, n) ==
    /\ Len(lines) = n + 1
    /\ lines[1] = <<"frame,value">>
    /\ \A f \in 0 .. (n - 1) : lines[f + 2][1] = "row" /\ lines[f + 2][2] = f

\* C4: an average is written only after the rows of all of 0..nbframes-1,
\* and is the sum of exactly those values over nbframes; a failed read ends
\* the run with the rows of the frames before it and no average.
C4_NoFrameSkipped ==
    /\ \A n \in DOMAIN files :
          \A i \in DOMAIN files[n] :
              files[n][i][1] = "average" =>
                  /\ i = nbframes + 2
                  /\ RowsUpTo(SubSeq(files[n], 1, nbframes + 1), nbframes)
                  /\ files[n][i][2] =
                        Average(RowValues(SubSeq(files[n], 1, nbframes + 1)), nbframes)
    /\ ReadFailed =>
          /\ exitCode = EXIT_FAILURE
          /\ frame < nbframes
          /\ \A n \in DOMAIN files : RowsUpTo(files[n], frame)

C4_Witness ==
    /\ ReadFailed
    /\ frame = 1
    /\ origPos = 2 /\ procPos = 1
    /\ \E n \in DOMAIN files : Len(files[n]) = 2

\* C5: at the end of a frame's computations.  SSIM and MSSSIM selected: the
\* SSIM value is the one the frame's MS-SSIM pass exposes and ssim->compute
\* was not called; SSIM alone: ssim->compute was called once for the frame;
\* MSSSIM alone: there is no SSIM file, so no SSIM value is written.
C5_SSIMDispatch ==
    pc = "row" =>
        /\ (Selected("SSIM") /\ Selected("MSSSIM")) =>
              /\ Count(calls, <<"ssim", frame>>) = 0
              /\ Count(calls, <<"msssim", frame>>) = 1
              /\ msssimObj = MSSSIM_compute(original_frame, processed_frame)
              /\ result[METRIC_SSIM] = msssimObj.ssim
        /\ (Selected("SSIM") /\ ~Selected("MSSSIM")) =>
              /\ Count(calls, <<"ssim", frame>>) = 1
              /\ Count(calls, <<"msssim", frame>>) = 0
              /\ result[METRIC_SSIM] = Score("SSIM", original_frame, processed_frame)
        /\ (~Selected("SSIM") /\ Selected("MSSSIM")) =>
              /\ Count(calls, <<"ssim", frame>>) = 0
              /\ result_file[METRIC_SSIM] = Null
              /\ FileName(results_path, "SSIM") \notin DOMAIN files

C5_Witness ==
    /\ pc = "row"
    /\ frame = 1
    /\ Selected("SSIM") /\ Selected("MSSSIM")
    /\ original_frame # processed_frame
    /\ result[METRIC_SSIM] = msssimObj.ssim

\* C8: the file of a selected metric M is named "<Output>_<M>.csv", Output
\* being the value of the results option.
C8_NamedAfterOutput ==
    \A m \in MetricIdx :
        result_file[m] # Null =>
            \E n \in DOMAIN metric2index :
                /\ metric2index[n] = m
                /\ result_file[m] = FileName(results_arg, n)

\* the value of metric n on the f-th pair of frames the streams delivered
ValueOn(n, f) ==
    IF n = "WSPSNR"
    THEN WSPSNR_compute(height, width, getLuma(origRead[f + 1]), getLuma(procRead[f + 1]))
    ELSE Score(n, getLuma(origRead[f + 1]), getLuma(procRead[f + 1]))

\* header, one row per frame in order with the frame's own value, average
CompleteFile(n) ==
    LET name == FileName(results_path, n)
    IN  /\ name \in DOMAIN files
        /\ name \in closed
        /\ files[name] =
              <<<<"frame,value">>>>
              \o [f \in 1 .. nbframes |-> <<"row", f - 1, ValueOn(n, f - 1)>>]
              \o <<<<"average",
                     Average([f \in 1 .. nbframes |-> ValueOn(n, f - 1)], nbframes)>>>>

\* the metrics a call of a metric object computes (usage notes, lines 164-166)
Computes(object) ==
    CASE object = "psnr"   -> {"PSNR"}
      [] object = "ssim"   -> {"SSIM"}
      [] object = "msssim" -> {"MSSSIM", "SSIM"}
      [] object = "vifp"   -> {"VIFP"}
      [] object = "phvs"   -> {"PSNRHVS", "PSNRHVSM"}
      [] object = "wspsnr" -> {"WSPSNR"}

\* the files are complete when the run is, and only selected metrics have one
FilesOfSelectedMetrics ==
    /\ pc = "done" =>
          /\ origPos = nbframes /\ procPos = nbframes
          /\ \A n \in DOMAIN metric2index : Selected(n) => CompleteFile(n)
    /\ \A n \in MetricArgs :
          (~Selected(n) \/ n \notin DOMAIN metric2index) =>
              FileName(results_path, n) \notin DOMAIN files
    /\ \A m \in MetricIdx :
          (\A n \in DOMAIN metric2index : metric2index[n] = m => ~Selected(n))
              => result_file[m] = Null /\ (result # <<>> => result[m] = Zero)
    /\ \A n \in closed : files[n][Len(files[n])][1] = "average"

\* C10 as claimed: ... and a metric that is not selected is never computed.
C10_OnlySelectedComputed ==
    /\ FilesOfSelectedMetrics
    /\ \A i \in DOMAIN calls :
          \A n \in Computes(calls[i][1]) : Selected(n)

\* C10 as amended: ... and a metric that is not selected is computed only
\* by a call that also computes a selected one (SSIM inside msssim->compute,
\* PSNRHVS and PSNRHVSM together in phvs->compute); its value is not kept.
C10_OnlySelectedReported ==
    /\ FilesOfSelectedMetrics
    /\ \A i \in DOMAIN calls :
          \E n \in Computes(calls[i][1]) : Selected(n)

C10_Witness ==
    /\ pc = "done"
    /\ nbframes = 2
    /\ metrics = <<"PSNR", "PSNRHVS">>
    /\ origRead[1] # origRead[2]
    /\ Count(calls, <<"phvs", 1>>) = 1
    /\ CompleteFile("PSNRHVS") /\ CompleteFile("PSNR")

=============================================================================
